---- MODULE Spec2Model ----
(***************************************************************************)
(* Model of contracts/PulseCheck_FHE.sol, contract EncryptedSurveySystem.  *)
(* Every external function is one atomic action (an EVM transaction): a    *)
(* failing require reverts the whole call, so the contract storage and the *)
(* event log are left exactly as they were.                                *)
(***************************************************************************)
EXTENDS Integers, Sequences, FiniteSets, TLC

\* ---------------------------------------------------------------- bounds
MaxTime      == 3   \* block.timestamp ranges over 0..MaxTime
MaxEvents    == 3   \* cap on the length of the event log
MaxCreates   == 2   \* cap on the number of successful createSurvey calls
MaxResponses == 2   \* cap on the number of responses stored over all surveys

\* ------------------------------------------------------- argument values
SurveyIds   == {1, 2}
DeptIds     == {1, 2}
\* Question ids a response is submitted with; verifyResponse may also be
\* called with 0, an id no response carries.
QuestionIds == {1}
\* Ciphertext handles; 0 is the uninitialised handle.
Handles     == {1, 2}
HandleInputs == {0} \cup Handles
Names       == {"", "Pulse"}
Times       == 0..MaxTime
\* startTime/endTime arguments: [1, 2] is the one valid window, with a clock
\* value before it (0) and clock values after it (3..MaxTime).
WindowTimes == {1, 2}

\* ------------------------------------------------- revert reasons (results)
Ok                    == "ok"
DuplicateSurvey       == "Survey already exists"
InvalidTimeRange      == "Invalid time range"
SurveyInactive        == "Survey is not active"
OutOfWindow           == "Survey not in progress"
InvalidEncryptedInput == "Invalid encrypted input"
InvalidInputProof     == "FHE.fromExternal reverted"
IndexOutOfRange       == "Invalid response index"
AlreadyVerified       == "Response already verified"
InvalidDecryptionProof == "FHE.checkSignatures reverted"
MalformedClearValue   == "abi.decode reverted"
NotYetVerified        == "Response not verified"
SurveyAlreadyClosed   == "Survey already closed"
SurveyStillInProgress == "Survey still in progress"

\* ------------------------------------------------------------ ABI values
\* A 256-bit ABI word, kept at its width in three limbs:
\* upper = bits 32..255 (as a number), hi = bits 16..31, lo = bits 0..15.
Limb == 65535
Word(upper, hi, lo) == [upper |-> upper, hi |-> hi, lo |-> lo]
\* A uint32, kept at its width in two 16-bit limbs.
Uint32(hi, lo) == [hi |-> hi, lo |-> lo]
Uint32Zero == Uint32(0, 0)

\* abiEncodedClearValue: a byte string, as its sequence of 32-byte words.
ClearWords == { Word(0, 0, 8), Word(0, Limb, Limb), Word(1, 0, 8) }
ClearValues == { << >> } \cup { <<w>> : w \in ClearWords }

\* abi.decode(b, (uint32)): reverts when b is shorter than one word or when
\* the word does not fit 32 bits; otherwise yields the low 32 bits.
\* AbiDecodable without the range check of the decoded word: the low 32
\* bits of any full word are taken.
AbiDecodable_NoRangeCheck(b) == Len(b) >= 1

AbiDecodable(b) == Len(b) >= 1 /\ b[1].upper = 0
AbiDecodeUint32(b) == Uint32(b[1].hi, b[1].lo)

\* ------------------------------------------------------ FHE collaborator
\* A decryption proof is a KMS signature over (handles, clear value); the
\* model names a proof by the message it signs, "forged" signs nothing.
Forged == [cts |-> << >>, clear |-> << >>]
Proofs == { [cts |-> <<h>>, clear |-> b] : h \in Handles, b \in ClearValues } \cup { Forged }

\* FHE.checkSignatures(cts, clear, proof): passes iff proof signs exactly
\* (cts, clear); otherwise it reverts.
checkSignatures(cts, clear, proof) == proof # Forged /\ proof.cts = cts /\ proof.clear = clear

\* FHE.fromExternal(encryptedScore, inputProof): reverts unless inputProof
\* attests the external handle; yields the handle as euint32.
InputProofs == HandleInputs
fromExternalOk(encryptedScore, inputProof) == inputProof = encryptedScore
fromExternal(encryptedScore, inputProof) == encryptedScore
\* FHE.isInitialized(v): the handle is not the zero handle.
isInitialized(v) == v # 0

\* ----------------------------------------------------------------- state
\* surveys, responses, responseCounts: the contract's storage mappings.
\* events: the log of emitted events.  now: block.timestamp.
\* closeCount: history of the successful closeSurvey calls per survey id
\* (closeSurvey emits no event).
VARIABLES surveys, responses, responseCounts, events, now, closeCount

vars == <<surveys, responses, responseCounts, events, now, closeCount>>

\* Storage default of an unset mapping slot.
SurveyMetadataZero == [surveyName |-> "", startTime |-> 0, endTime |-> 0, isActive |-> FALSE]

Init ==
    /\ surveys = [s \in SurveyIds |-> SurveyMetadataZero]
    /\ responses = [s \in SurveyIds |-> [d \in DeptIds |-> << >>]]
    /\ responseCounts = [s \in SurveyIds |-> 0]
    /\ events = << >>
    /\ now = 0
    /\ closeCount = [s \in SurveyIds |-> 0]

\* ------------------------------------------------------------ operations
\* Each external function is one transaction.  Its outcome is Ok or the
\* reason of the first failing require; a reverted transaction changes
\* nothing, so the action is enabled exactly when the outcome is Ok.

NumCreated == Cardinality({ k \in DOMAIN events : events[k].kind = "SurveyCreated" })

NumStored == Cardinality({ k \in DOMAIN events : events[k].kind = "ResponseSubmitted" })

\* createSurveyOutcome accepting endTime = startTime (>= instead of >).
createSurveyOutcome_AllowsEqual(surveyId, surveyName, startTime, endTime) ==
    IF ~(surveys[surveyId].surveyName = "") THEN DuplicateSurvey
    ELSE IF ~(endTime >= startTime) THEN InvalidTimeRange
    ELSE Ok

createSurveyOutcome(surveyId, surveyName, startTime, endTime) ==
    IF ~(surveys[surveyId].surveyName = "") THEN DuplicateSurvey
    ELSE IF ~(endTime > startTime) THEN InvalidTimeRange
    ELSE Ok

\* createSurvey storing the survey before the time-range require, on a path
\* that does not revert.
createSurvey_StoresBeforeRangeCheck(surveyId, surveyName, startTime, endTime) ==
    /\ createSurveyOutcome(surveyId, surveyName, startTime, endTime) # DuplicateSurvey
    /\ surveys' = [surveys EXCEPT ![surveyId] =
                      [surveyName |-> surveyName, startTime |-> startTime,
                       endTime |-> endTime, isActive |-> TRUE]]
    /\ events' = IF createSurveyOutcome(surveyId, surveyName, startTime, endTime) = Ok
                 THEN Append(events, [kind |-> "SurveyCreated", surveyId |-> surveyId,
                                      surveyName |-> surveyName])
                 ELSE events
    /\ UNCHANGED <<responses, responseCounts, now, closeCount>>

createSurvey(surveyId, surveyName, startTime, endTime) ==
    /\ createSurveyOutcome(surveyId, surveyName, startTime, endTime) = Ok
    /\ surveys' = [surveys EXCEPT ![surveyId] =
                      [surveyName |-> surveyName, startTime |-> startTime,
                       endTime |-> endTime, isActive |-> TRUE]]
    /\ events' = Append(events, [kind |-> "SurveyCreated", surveyId |-> surveyId,
                                 surveyName |-> surveyName])
    /\ UNCHANGED <<responses, responseCounts, now, closeCount>>

\* submitOutcome validating the ciphertext before the survey gates.
submitOutcome_CiphertextFirst(surveyId, departmentId, questionId, encryptedScore, inputProof, t) ==
    IF ~fromExternalOk(encryptedScore, inputProof) THEN InvalidInputProof
    ELSE IF ~isInitialized(fromExternal(encryptedScore, inputProof))
    THEN InvalidEncryptedInput
    ELSE IF ~surveys[surveyId].isActive THEN SurveyInactive
    ELSE IF ~(t >= surveys[surveyId].startTime /\ t <= surveys[surveyId].endTime)
    THEN OutOfWindow
    ELSE Ok

\* submitOutcome without the upper bound of the window check.
submitOutcome_NoUpperBound(surveyId, departmentId, questionId, encryptedScore, inputProof, t) ==
    IF ~surveys[surveyId].isActive THEN SurveyInactive
    ELSE IF ~(t >= surveys[surveyId].startTime) THEN OutOfWindow
    ELSE IF ~fromExternalOk(encryptedScore, inputProof) THEN InvalidInputProof
    ELSE IF ~isInitialized(fromExternal(encryptedScore, inputProof))
    THEN InvalidEncryptedInput
    ELSE Ok

\* submitOutcome with an exclusive upper bound (< instead of <=).
submitOutcome_StrictEnd(surveyId, departmentId, questionId, encryptedScore, inputProof, t) ==
    IF ~surveys[surveyId].isActive THEN SurveyInactive
    ELSE IF ~(t >= surveys[surveyId].startTime /\ t < surveys[surveyId].endTime)
    THEN OutOfWindow
    ELSE IF ~fromExternalOk(encryptedScore, inputProof) THEN InvalidInputProof
    ELSE IF ~isInitialized(fromExternal(encryptedScore, inputProof))
    THEN InvalidEncryptedInput
    ELSE Ok

submitOutcome(surveyId, departmentId, questionId, encryptedScore, inputProof, t) ==
    IF ~surveys[surveyId].isActive THEN SurveyInactive
    ELSE IF ~(t >= surveys[surveyId].startTime /\ t <= surveys[surveyId].endTime)
    THEN OutOfWindow
    ELSE IF ~fromExternalOk(encryptedScore, inputProof) THEN InvalidInputProof
    ELSE IF ~isInitialized(fromExternal(encryptedScore, inputProof))
    THEN InvalidEncryptedInput
    ELSE Ok

\* submitEncryptedResponse inserting the new response at the front.
submitEncryptedResponse_Prepend(surveyId, departmentId, questionId, encryptedScore, inputProof) ==
    /\ submitOutcome(surveyId, departmentId, questionId, encryptedScore, inputProof, now) = Ok
    /\ LET encryptedValue == fromExternal(encryptedScore, inputProof) IN
       responses' = [responses EXCEPT ![surveyId][departmentId] =
                        << [encryptedScore |-> encryptedValue,
                            departmentId |-> departmentId,
                            questionId |-> questionId,
                            timestamp |-> now,
                            isVerified |-> FALSE,
                            decryptedScore |-> Uint32Zero] >> \o @]
    /\ responseCounts' = [responseCounts EXCEPT ![surveyId] = @ + 1]
    /\ events' = Append(events, [kind |-> "ResponseSubmitted", surveyId |-> surveyId,
                                 departmentId |-> departmentId,
                                 questionId |-> questionId])
    /\ UNCHANGED <<surveys, now, closeCount>>

\* submitEncryptedResponse counting the response under its department id
\* instead of its survey id.
submitEncryptedResponse_CountByDept(surveyId, departmentId, questionId, encryptedScore, inputProof) ==
    /\ submitOutcome(surveyId, departmentId, questionId, encryptedScore, inputProof, now) = Ok
    /\ LET encryptedValue == fromExternal(encryptedScore, inputProof) IN
       responses' = [responses EXCEPT ![surveyId][departmentId] =
                        Append(@, [encryptedScore |-> encryptedValue,
                                   departmentId |-> departmentId,
                                   questionId |-> questionId,
                                   timestamp |-> now,
                                   isVerified |-> FALSE,
                                   decryptedScore |-> Uint32Zero])]
    /\ responseCounts' = [responseCounts EXCEPT ![IF departmentId \in SurveyIds THEN departmentId ELSE surveyId] = @ + 1]
    /\ events' = Append(events, [kind |-> "ResponseSubmitted", surveyId |-> surveyId,
                                 departmentId |-> departmentId,
                                 questionId |-> questionId])
    /\ UNCHANGED <<surveys, now, closeCount>>

submitEncryptedResponse(surveyId, departmentId, questionId, encryptedScore, inputProof) ==
    /\ submitOutcome(surveyId, departmentId, questionId, encryptedScore, inputProof, now) = Ok
    /\ LET encryptedValue == fromExternal(encryptedScore, inputProof) IN
       responses' = [responses EXCEPT ![surveyId][departmentId] =
                        Append(@, [encryptedScore |-> encryptedValue,
                                   departmentId |-> departmentId,
                                   questionId |-> questionId,
                                   timestamp |-> now,
                                   isVerified |-> FALSE,
                                   decryptedScore |-> Uint32Zero])]
    /\ responseCounts' = [responseCounts EXCEPT ![surveyId] = @ + 1]
    /\ events' = Append(events, [kind |-> "ResponseSubmitted", surveyId |-> surveyId,
                                 departmentId |-> departmentId,
                                 questionId |-> questionId])
    /\ UNCHANGED <<surveys, now, closeCount>>

\* verifyOutcome without the require on isVerified.
verifyOutcome_NoVerifiedCheck(surveyId, departmentId, questionId, responseIndex, abiEncodedClearValue, decryptionProof) ==
    IF ~(responseIndex < Len(responses[surveyId][departmentId])) THEN IndexOutOfRange
    ELSE LET response == responses[surveyId][departmentId][responseIndex + 1]
             cts == << response.encryptedScore >>
         IN
         IF ~checkSignatures(cts, abiEncodedClearValue, decryptionProof)
         THEN InvalidDecryptionProof
         ELSE IF ~AbiDecodable(abiEncodedClearValue) THEN MalformedClearValue
         ELSE Ok

\* verifyOutcome checking the proof against the handle of the sequence's
\* first response instead of the target's own handle.
verifyOutcome_FirstHandle(surveyId, departmentId, questionId, responseIndex, abiEncodedClearValue, decryptionProof) ==
    IF ~(responseIndex < Len(responses[surveyId][departmentId])) THEN IndexOutOfRange
    ELSE LET response == responses[surveyId][departmentId][responseIndex + 1]
             cts == << responses[surveyId][departmentId][1].encryptedScore >>
         IN
         IF ~(~response.isVerified) THEN AlreadyVerified
         ELSE IF ~checkSignatures(cts, abiEncodedClearValue, decryptionProof)
         THEN InvalidDecryptionProof
         ELSE IF ~AbiDecodable(abiEncodedClearValue) THEN MalformedClearValue
         ELSE Ok

\* verifyOutcome with a require that the questionId argument is the stored
\* response's questionId.
verifyOutcome_ChecksQuestionId(surveyId, departmentId, questionId, responseIndex, abiEncodedClearValue, decryptionProof) ==
    IF ~(responseIndex < Len(responses[surveyId][departmentId])) THEN IndexOutOfRange
    ELSE LET response == responses[surveyId][departmentId][responseIndex + 1]
             cts == << response.encryptedScore >>
         IN
         IF ~(response.questionId = questionId) THEN IndexOutOfRange
         ELSE IF ~(~response.isVerified) THEN AlreadyVerified
         ELSE IF ~checkSignatures(cts, abiEncodedClearValue, decryptionProof)
         THEN InvalidDecryptionProof
         ELSE IF ~AbiDecodable(abiEncodedClearValue) THEN MalformedClearValue
         ELSE Ok

\* verifyOutcome with a require that the submission window has passed.
verifyOutcome_RequiresWindowPassed(surveyId, departmentId, questionId, responseIndex, abiEncodedClearValue, decryptionProof) ==
    IF ~(now > surveys[surveyId].endTime) THEN SurveyStillInProgress
    ELSE IF ~(responseIndex < Len(responses[surveyId][departmentId])) THEN IndexOutOfRange
    ELSE LET response == responses[surveyId][departmentId][responseIndex + 1]
             cts == << response.encryptedScore >>
         IN
         IF ~(~response.isVerified) THEN AlreadyVerified
         ELSE IF ~checkSignatures(cts, abiEncodedClearValue, decryptionProof)
         THEN InvalidDecryptionProof
         ELSE IF ~AbiDecodable(abiEncodedClearValue) THEN MalformedClearValue
         ELSE Ok

\* verifyOutcome checking the proof before the isVerified flag.
verifyOutcome_ProofBeforeVerified(surveyId, departmentId, questionId, responseIndex, abiEncodedClearValue, decryptionProof) ==
    IF ~(responseIndex < Len(responses[surveyId][departmentId])) THEN IndexOutOfRange
    ELSE LET response == responses[surveyId][departmentId][responseIndex + 1]
             cts == << response.encryptedScore >>
         IN
         IF ~checkSignatures(cts, abiEncodedClearValue, decryptionProof)
         THEN InvalidDecryptionProof
         ELSE IF ~(~response.isVerified) THEN AlreadyVerified
         ELSE IF ~AbiDecodable(abiEncodedClearValue) THEN MalformedClearValue
         ELSE Ok

\* verifyOutcome with a require that the survey is still active.
verifyOutcome_RequiresActive(surveyId, departmentId, questionId, responseIndex, abiEncodedClearValue, decryptionProof) ==
    IF ~surveys[surveyId].isActive THEN SurveyInactive
    ELSE IF ~(responseIndex < Len(responses[surveyId][departmentId])) THEN IndexOutOfRange
    ELSE LET response == responses[surveyId][departmentId][responseIndex + 1]
             cts == << response.encryptedScore >>
         IN
         IF ~(~response.isVerified) THEN AlreadyVerified
         ELSE IF ~checkSignatures(cts, abiEncodedClearValue, decryptionProof)
         THEN InvalidDecryptionProof
         ELSE IF ~AbiDecodable(abiEncodedClearValue) THEN MalformedClearValue
         ELSE Ok

verifyOutcome(surveyId, departmentId, questionId, responseIndex, abiEncodedClearValue, decryptionProof) ==
    IF ~(responseIndex < Len(responses[surveyId][departmentId])) THEN IndexOutOfRange
    ELSE LET response == responses[surveyId][departmentId][responseIndex + 1]
             cts == << response.encryptedScore >>
         IN
         IF ~(~response.isVerified) THEN AlreadyVerified
         ELSE IF ~checkSignatures(cts, abiEncodedClearValue, decryptionProof)
         THEN InvalidDecryptionProof
         ELSE IF ~AbiDecodable(abiEncodedClearValue) THEN MalformedClearValue
         ELSE Ok

\* verifyResponse storing the score but not setting isVerified.
verifyResponse_FlagNotSet(surveyId, departmentId, questionId, responseIndex, abiEncodedClearValue, decryptionProof) ==
    /\ verifyOutcome(surveyId, departmentId, questionId, responseIndex,
                     abiEncodedClearValue, decryptionProof) = Ok
    /\ LET decodedValue == AbiDecodeUint32(abiEncodedClearValue) IN
       /\ responses' = [responses EXCEPT ![surveyId][departmentId][responseIndex + 1] =
                           [@ EXCEPT !.decryptedScore = decodedValue]]
       /\ events' = Append(events, [kind |-> "ResponseVerified", surveyId |-> surveyId,
                                    departmentId |-> departmentId,
                                    questionId |-> questionId,
                                    score |-> decodedValue])
    /\ UNCHANGED <<surveys, responseCounts, now, closeCount>>

\* verifyResponse writing to the first response of the sequence instead of
\* the one at responseIndex.
verifyResponse_WritesFirst(surveyId, departmentId, questionId, responseIndex, abiEncodedClearValue, decryptionProof) ==
    /\ verifyOutcome(surveyId, departmentId, questionId, responseIndex,
                     abiEncodedClearValue, decryptionProof) = Ok
    /\ LET decodedValue == AbiDecodeUint32(abiEncodedClearValue) IN
       /\ responses' = [responses EXCEPT ![surveyId][departmentId][1] =
                           [@ EXCEPT !.decryptedScore = decodedValue,
                                     !.isVerified = TRUE]]
       /\ events' = Append(events, [kind |-> "ResponseVerified", surveyId |-> surveyId,
                                    departmentId |-> departmentId,
                                    questionId |-> questionId,
                                    score |-> decodedValue])
    /\ UNCHANGED <<surveys, responseCounts, now, closeCount>>

\* verifyResponse setting isVerified but not storing the decoded score.
verifyResponse_ScoreNotStored(surveyId, departmentId, questionId, responseIndex, abiEncodedClearValue, decryptionProof) ==
    /\ verifyOutcome(surveyId, departmentId, questionId, responseIndex,
                     abiEncodedClearValue, decryptionProof) = Ok
    /\ LET decodedValue == AbiDecodeUint32(abiEncodedClearValue) IN
       /\ responses' = [responses EXCEPT ![surveyId][departmentId][responseIndex + 1] =
                           [@ EXCEPT !.isVerified = TRUE]]
       /\ events' = Append(events, [kind |-> "ResponseVerified", surveyId |-> surveyId,
                                    departmentId |-> departmentId,
                                    questionId |-> questionId,
                                    score |-> decodedValue])
    /\ UNCHANGED <<surveys, responseCounts, now, closeCount>>

\* verifyResponse without its emit.
verifyResponse_NoEmit(surveyId, departmentId, questionId, responseIndex, abiEncodedClearValue, decryptionProof) ==
    /\ verifyOutcome(surveyId, departmentId, questionId, responseIndex,
                     abiEncodedClearValue, decryptionProof) = Ok
    /\ LET decodedValue == AbiDecodeUint32(abiEncodedClearValue) IN
       responses' = [responses EXCEPT ![surveyId][departmentId][responseIndex + 1] =
                        [@ EXCEPT !.decryptedScore = decodedValue,
                                  !.isVerified = TRUE]]
    /\ UNCHANGED <<surveys, responseCounts, events, now, closeCount>>

verifyResponse(surveyId, departmentId, questionId, responseIndex, abiEncodedClearValue, decryptionProof) ==
    /\ verifyOutcome(surveyId, departmentId, questionId, responseIndex,
                     abiEncodedClearValue, decryptionProof) = Ok
    /\ LET decodedValue == AbiDecodeUint32(abiEncodedClearValue) IN
       /\ responses' = [responses EXCEPT ![surveyId][departmentId][responseIndex + 1] =
                           [@ EXCEPT !.decryptedScore = decodedValue,
                                     !.isVerified = TRUE]]
       /\ events' = Append(events, [kind |-> "ResponseVerified", surveyId |-> surveyId,
                                    departmentId |-> departmentId,
                                    questionId |-> questionId,
                                    score |-> decodedValue])
    /\ UNCHANGED <<surveys, responseCounts, now, closeCount>>

\* closeSurveyOutcome allowing the close at endTime (>= instead of >).
closeSurveyOutcome_AtEnd(surveyId, t) ==
    IF ~surveys[surveyId].isActive THEN SurveyAlreadyClosed
    ELSE IF ~(t >= surveys[surveyId].endTime) THEN SurveyStillInProgress
    ELSE Ok

closeSurveyOutcome(surveyId, t) ==
    IF ~surveys[surveyId].isActive THEN SurveyAlreadyClosed
    ELSE IF ~(t > surveys[surveyId].endTime) THEN SurveyStillInProgress
    ELSE Ok

\* closeSurvey deleting the survey record (delete surveys[surveyId]).
closeSurvey_DeletesSurvey(surveyId) ==
    /\ closeSurveyOutcome(surveyId, now) = Ok
    /\ surveys' = [surveys EXCEPT ![surveyId] = SurveyMetadataZero]
    /\ closeCount' = [closeCount EXCEPT ![surveyId] = @ + 1]
    /\ UNCHANGED <<responses, responseCounts, events, now>>

\* closeSurvey deleting the responses of the survey it closes.
closeSurvey_DeletesResponses(surveyId) ==
    /\ closeSurveyOutcome(surveyId, now) = Ok
    /\ surveys' = [surveys EXCEPT ![surveyId].isActive = FALSE]
    /\ responses' = [responses EXCEPT ![surveyId] = [d \in DeptIds |-> << >>]]
    /\ closeCount' = [closeCount EXCEPT ![surveyId] = @ + 1]
    /\ UNCHANGED <<responseCounts, events, now>>

closeSurvey(surveyId) ==
    /\ closeSurveyOutcome(surveyId, now) = Ok
    /\ surveys' = [surveys EXCEPT ![surveyId].isActive = FALSE]
    /\ closeCount' = [closeCount EXCEPT ![surveyId] = @ + 1]
    /\ UNCHANGED <<responses, responseCounts, events, now>>

\* ------------------------------------------------------------------ views
Reverted(reason) == [ok |-> FALSE, reason |-> reason]
Returned(value) == [ok |-> TRUE, value |-> value]

getSurveyMetadata(surveyId) == Returned(surveys[surveyId])

getResponseCount(surveyId) == Returned(responseCounts[surveyId])

getEncryptedResponse(surveyId, departmentId, questionId, responseIndex) ==
    IF ~(responseIndex < Len(responses[surveyId][departmentId]))
    THEN Reverted(IndexOutOfRange)
    ELSE Returned(responses[surveyId][departmentId][responseIndex + 1].encryptedScore)

\* getDecryptedResponse without the require on isVerified.
getDecryptedResponse_NoVerifiedRequire(surveyId, departmentId, questionId, responseIndex) ==
    IF ~(responseIndex < Len(responses[surveyId][departmentId]))
    THEN Reverted(IndexOutOfRange)
    ELSE Returned(responses[surveyId][departmentId][responseIndex + 1].decryptedScore)

getDecryptedResponse(surveyId, departmentId, questionId, responseIndex) ==
    IF ~(responseIndex < Len(responses[surveyId][departmentId]))
    THEN Reverted(IndexOutOfRange)
    ELSE IF ~responses[surveyId][departmentId][responseIndex + 1].isVerified
    THEN Reverted(NotYetVerified)
    ELSE Returned(responses[surveyId][departmentId][responseIndex + 1].decryptedScore)

getResponseDetails(surveyId, departmentId, questionId, responseIndex) ==
    IF ~(responseIndex < Len(responses[surveyId][departmentId]))
    THEN Reverted(IndexOutOfRange)
    ELSE LET response == responses[surveyId][departmentId][responseIndex + 1] IN
         Returned([respDepartmentId |-> response.departmentId,
                   respQuestionId |-> response.questionId,
                   timestamp |-> response.timestamp,
                   isVerified |-> response.isVerified,
                   decryptedScore |-> response.decryptedScore])

\* ------------------------------------------------------------------ clock
\* block.timestamp: read once per call, never decreasing between calls.
Tick == \E t \in Times : t > now /\ now' = t /\ UNCHANGED <<surveys, responses, responseCounts, events, closeCount>>


CreateStep(ids) ==
    \E surveyId \in ids, surveyName \in Names, startTime \in WindowTimes, endTime \in WindowTimes :
        createSurvey(surveyId, surveyName, startTime, endTime)

SubmitStep(ids) ==
    \E surveyId \in ids, departmentId \in DeptIds, questionId \in QuestionIds,
       encryptedScore \in HandleInputs, inputProof \in InputProofs :
        submitEncryptedResponse(surveyId, departmentId, questionId, encryptedScore, inputProof)

VerifyStep(ids) ==
    \E surveyId \in ids, departmentId \in DeptIds :
      \E responseIndex \in 0..Len(responses[surveyId][departmentId]),
         questionId \in {0} \cup QuestionIds,
         abiEncodedClearValue \in ClearValues, decryptionProof \in Proofs :
        verifyResponse(surveyId, departmentId, questionId, responseIndex,
                       abiEncodedClearValue, decryptionProof)

CloseStep(ids) == \E surveyId \in ids : closeSurvey(surveyId)

\* The transactions on the surveys `ids`, explored until the event log
\* holds maxEvents events, MaxCreates of them creations and MaxResponses
\* submissions.
NextOn(ids, maxEvents) ==
    \/ Len(events) < maxEvents /\ NumCreated < MaxCreates /\ CreateStep(ids)
    \/ Len(events) < maxEvents /\ NumStored < MaxResponses /\ SubmitStep(ids)
    \/ Len(events) < maxEvents /\ VerifyStep(ids)
    \/ CloseStep(ids)
    \/ Tick

Next == NextOn(SurveyIds, MaxEvents)

\* Every survey id, logs of up to MaxEvents events.
Spec == Init /\ [][Next]_vars

NextDeep == NextOn({1}, MaxEvents + 1)

\* One survey id, logs one event longer.
SpecDeep == Init /\ [][NextDeep]_vars

\* ---------------------------------------------------------------- helpers
\* Zero-based indices stored in the sequence of (s, d).
StoredIndices(s, d) == 0..(Len(responses[s][d]) - 1)
ResponseAt(s, d, i) == responses[s][d][i + 1]
\* Arguments a caller of verifyResponse can choose.
VerifyQuestionIds == {0} \cup QuestionIds

\* ------------------------------------------------------------------ C1
VerifiedRejectsVerify ==
    \A s \in SurveyIds, d \in DeptIds : \A i \in StoredIndices(s, d) :
        ResponseAt(s, d, i).isVerified =>
            \A q \in VerifyQuestionIds, b \in ClearValues, p \in Proofs :
                verifyOutcome(s, d, q, i, b, p) = AlreadyVerified

VerifySetsFlagAndVerifiedIsFrozen ==
    /\ \A s \in SurveyIds, d \in DeptIds : \A i \in StoredIndices(s, d) :
          \A q \in VerifyQuestionIds, b \in ClearValues, p \in Proofs :
              verifyResponse(s, d, q, i, b, p) => responses'[s][d][i + 1].isVerified
    /\ \A s \in SurveyIds, d \in DeptIds : \A i \in StoredIndices(s, d) :
          ResponseAt(s, d, i).isVerified =>
              /\ i < Len(responses'[s][d])
              /\ responses'[s][d][i + 1] = ResponseAt(s, d, i)

\* C1: a successful verifyResponse leaves the response verified; from then
\* on every verifyResponse call on the same (surveyId, departmentId, index)
\* reverts with "Response already verified", whatever its clear value and
\* proof, and no step changes the verified response.
C1_ExactlyOnceVerification ==
    [](VerifiedRejectsVerify) /\ [][VerifySetsFlagAndVerifiedIsFrozen]_vars

\* A verified response for which a fresh call carries a proof that
\* checkSignatures accepts: only the isVerified gate rejects the call.
C1_Witness ==
    \E s \in SurveyIds, d \in DeptIds : \E i \in StoredIndices(s, d) :
        /\ ResponseAt(s, d, i).isVerified
        /\ \E b \in ClearValues, p \in Proofs :
              /\ checkSignatures(<< ResponseAt(s, d, i).encryptedScore >>, b, p)
              /\ AbiDecodable(b)
              /\ verifyOutcome(s, d, 1, i, b, p) = AlreadyVerified

\* ------------------------------------------------------------------ C2
NumVerifiedEvents(s, d) ==
    Cardinality({ k \in DOMAIN events :
                    /\ events[k].kind = "ResponseVerified"
                    /\ events[k].surveyId = s /\ events[k].departmentId = d })
NumVerified(s, d) == Cardinality({ i \in StoredIndices(s, d) : ResponseAt(s, d, i).isVerified })

OneEventPerVerifiedResponse ==
    \A s \in SurveyIds, d \in DeptIds : NumVerifiedEvents(s, d) = NumVerified(s, d)

\* The step commits the unverified -> verified transition of (s, d, i).
CommitsVerification(s, d, i) ==
    /\ ~ResponseAt(s, d, i).isVerified
    /\ responses'[s][d][i + 1].isVerified

VerifyCommitsOnce ==
    /\ \A s \in SurveyIds, d \in DeptIds : \A i \in StoredIndices(s, d) :
          \A q \in VerifyQuestionIds, b \in ClearValues, p \in Proofs :
              verifyResponse(s, d, q, i, b, p) =>
                  /\ CommitsVerification(s, d, i)
                  /\ Len(events') = Len(events) + 1
                  /\ events'[Len(events')].kind = "ResponseVerified"
    /\ \A s \in SurveyIds, d \in DeptIds : \A i \in StoredIndices(s, d) :
          ResponseAt(s, d, i).isVerified => responses'[s][d][i + 1].isVerified
    /\ Cardinality({ sdi \in { <<s, d, i>> : s \in SurveyIds, d \in DeptIds,
                                             i \in 0..(MaxResponses - 1) } :
                        /\ sdi[3] \in StoredIndices(sdi[1], sdi[2])
                        /\ CommitsVerification(sdi[1], sdi[2], sdi[3]) }) <= 1

\* C2: with every call one atomic step, whatever the interleaving of verify
\* attempts, each successful verifyResponse takes its response from
\* unverified to verified and emits one ResponseVerified event, the flag
\* never returns to false and a step commits at most one such transition;
\* so per (survey, department) the number of ResponseVerified events equals
\* the number of verified responses: at most one success per response.
C2_AtMostOneVerifyCommits ==
    [](OneEventPerVerifiedResponse) /\ [][VerifyCommitsOnce]_vars

\* Two attempts could target the verified response with different
\* arguments, and the losing ones are turned away.
C2_Witness ==
    \E s \in SurveyIds, d \in DeptIds : \E i \in StoredIndices(s, d) :
        /\ ResponseAt(s, d, i).isVerified
        /\ NumVerifiedEvents(s, d) = 1
        /\ \A q \in VerifyQuestionIds, b \in ClearValues, p \in Proofs :
              verifyOutcome(s, d, q, i, b, p) # Ok

\* ------------------------------------------------------------------ C3
ProofGate ==
    \A s \in SurveyIds, d \in DeptIds : \A i \in StoredIndices(s, d) :
        /\ \A q \in VerifyQuestionIds, b \in ClearValues, p \in Proofs :
              verifyResponse(s, d, q, i, b, p) =>
                  /\ checkSignatures(<< ResponseAt(s, d, i).encryptedScore >>, b, p)
                  /\ AbiDecodable(b)
                  /\ responses'[s][d][i + 1].decryptedScore = AbiDecodeUint32(b)
                  /\ responses'[s][d][i + 1].encryptedScore = ResponseAt(s, d, i).encryptedScore
        /\ CommitsVerification(s, d, i) =>
              \E q \in VerifyQuestionIds, b \in ClearValues, p \in Proofs :
                  verifyResponse(s, d, q, i, b, p)
        /\ ResponseAt(s, d, i).isVerified =>
              /\ responses'[s][d][i + 1].decryptedScore = ResponseAt(s, d, i).decryptedScore
              /\ responses'[s][d][i + 1].encryptedScore = ResponseAt(s, d, i).encryptedScore

\* C3: a response becomes verified only by a verifyResponse call whose
\* (clear value, proof) checkSignatures accepts for that response's own
\* stored handle, and the score stored is the decoding of that clear value;
\* the verified response's handle and score then stay as they are.
C3_ProofGate == [][ProofGate]_vars

\* A second response of the same sequence, with another handle, is
\* verified: the proof had to sign its own handle, not the first one's.
C3_Witness ==
    \E s \in SurveyIds, d \in DeptIds :
        /\ Len(responses[s][d]) >= 2
        /\ responses[s][d][2].isVerified
        /\ responses[s][d][2].encryptedScore # responses[s][d][1].encryptedScore

\* ------------------------------------------------------------------ C4
UnverifiedReadsFail ==
    \A s \in SurveyIds, d \in DeptIds : \A i \in StoredIndices(s, d) :
        \A q \in VerifyQuestionIds :
            ~ResponseAt(s, d, i).isVerified =>
                getDecryptedResponse(s, d, q, i) = Reverted(NotYetVerified)

ReadReturnsDecodedForever ==
    \A s \in SurveyIds, d \in DeptIds : \A i \in StoredIndices(s, d) :
        /\ \A q \in VerifyQuestionIds, b \in ClearValues, p \in Proofs :
              verifyResponse(s, d, q, i, b, p) =>
                  (getDecryptedResponse(s, d, q, i))' = Returned(AbiDecodeUint32(b))
        /\ \A q \in VerifyQuestionIds :
              getDecryptedResponse(s, d, q, i).ok =>
                  (getDecryptedResponse(s, d, q, i))' = getDecryptedResponse(s, d, q, i)
        /\ ~ResponseAt(s, d, i).isVerified /\ responses'[s][d][i + 1].isVerified =>
              \E q \in VerifyQuestionIds, b \in ClearValues, p \in Proofs :
                  verifyResponse(s, d, q, i, b, p)

\* C4: getDecryptedResponse of a stored response reverts with "Response not
\* verified" as long as no verifyResponse on it has succeeded; the step of
\* the successful verifyResponse makes it return the value decoded from that
\* call's clear value, and every later step leaves that return value alone.
C4_ReadBeforeVerify ==
    [](UnverifiedReadsFail) /\ [][ReadReturnsDecodedForever]_vars

\* A verified response is read back after a later operation that emitted
\* an event of its own has run.
C4_Witness ==
    \E s \in SurveyIds, d \in DeptIds : \E i \in StoredIndices(s, d) :
        /\ getDecryptedResponse(s, d, 1, i) = Returned(Uint32(0, 8))
        /\ \E k \in DOMAIN events :
              /\ events[k].kind = "ResponseVerified"
              /\ k < Len(events)

\* ------------------------------------------------------------------ C5
\* createSurvey has succeeded for survey id s at some earlier step.
WasCreated(s) ==
    \E k \in DOMAIN events : events[k].kind = "SurveyCreated" /\ events[k].surveyId = s

CreatedRejectsCreate ==
    \A s \in SurveyIds :
        WasCreated(s) =>
            \A name \in Names, st \in WindowTimes, en \in WindowTimes :
                createSurveyOutcome(s, name, st, en) = DuplicateSurvey

\* C5: once createSurvey(id, ...) has succeeded, every later createSurvey
\* with the same id reverts with "Survey already exists".
C5_Uniqueness == CreatedRejectsCreate

\* ------------------------------------------------------------------ C6
NumSubmittedEvents(s, d) ==
    Cardinality({ k \in DOMAIN events :
                    /\ events[k].kind = "ResponseSubmitted"
                    /\ events[k].surveyId = s /\ events[k].departmentId = d })

\* The question ids of the ResponseSubmitted events of (s, d), in log order.
RECURSIVE SubmittedQuestions(_, _, _)
SubmittedQuestions(s, d, n) ==
    IF n = 0 THEN << >>
    ELSE IF /\ events[n].kind = "ResponseSubmitted"
            /\ events[n].surveyId = s /\ events[n].departmentId = d
         THEN Append(SubmittedQuestions(s, d, n - 1), events[n].questionId)
         ELSE SubmittedQuestions(s, d, n - 1)

IndicesFollowSubmissions ==
    \A s \in SurveyIds, d \in DeptIds :
        /\ NumSubmittedEvents(s, d) = Len(responses[s][d])
        /\ SubmittedQuestions(s, d, Len(events))
             = [k \in 1..Len(responses[s][d]) |-> responses[s][d][k].questionId]

SubmitAppendsAtLength ==
    \A s \in SurveyIds, d \in DeptIds :
        LET n == Len(responses[s][d]) IN
        /\ \A q \in QuestionIds, e \in HandleInputs, ip \in InputProofs :
              submitEncryptedResponse(s, d, q, e, ip) =>
                  /\ Len(responses'[s][d]) = n + 1
                  /\ responses'[s][d][n + 1] =
                        [encryptedScore |-> e, departmentId |-> d, questionId |-> q,
                         timestamp |-> now, isVerified |-> FALSE,
                         decryptedScore |-> Uint32Zero]
        /\ Len(responses'[s][d]) \in {n, n + 1}
        /\ Len(responses'[s][d]) = n + 1 =>
              \E q \in QuestionIds, e \in HandleInputs, ip \in InputProofs :
                  submitEncryptedResponse(s, d, q, e, ip)
        /\ \A i \in StoredIndices(s, d) :
              /\ responses'[s][d][i + 1].encryptedScore = ResponseAt(s, d, i).encryptedScore
              /\ responses'[s][d][i + 1].questionId = ResponseAt(s, d, i).questionId
              /\ responses'[s][d][i + 1].timestamp = ResponseAt(s, d, i).timestamp

\* C6: a successful submitEncryptedResponse stores its response at the index
\* equal to the length of the (surveyId, departmentId) sequence before the
\* call; no other step changes a length or moves a stored response, so the
\* k-th successful submit of a sequence sits at index k (k = 0, 1, ...).
C6_DenseIndices == [](IndicesFollowSubmissions) /\ [][SubmitAppendsAtLength]_vars

\* Two responses submitted at different times sit at indices 0 and 1 of one
\* sequence, in submission order.
C6_Witness ==
    \E s \in SurveyIds, d \in DeptIds :
        /\ Len(responses[s][d]) = 2
        /\ responses[s][d][1].timestamp < responses[s][d][2].timestamp
        /\ responses[s][d][1].encryptedScore # responses[s][d][2].encryptedScore

\* ------------------------------------------------------------------ C7
\* The sum of the lengths of the sequences of survey s over the departments ds.
RECURSIVE SumOfLengths(_, _)
SumOfLengths(s, ds) ==
    IF ds = {} THEN 0
    ELSE LET d == CHOOSE x \in ds : TRUE IN Len(responses[s][d]) + SumOfLengths(s, ds \ {d})

NumSubmittedToSurvey(s) ==
    Cardinality({ k \in DOMAIN events :
                    events[k].kind = "ResponseSubmitted" /\ events[k].surveyId = s })

CountIsSumOfLengths ==
    \A s \in SurveyIds :
        /\ getResponseCount(s) = Returned(SumOfLengths(s, DeptIds))
        /\ responseCounts[s] = NumSubmittedToSurvey(s)

CountNeverDecreases == \A s \in SurveyIds : responseCounts'[s] >= responseCounts[s]

\* C7: in every reachable state responseCounts[surveyId] equals the sum of
\* the lengths of the survey's department sequences and the number of
\* successful submits to the survey, and no step decreases it.
C7_CounterInvariant == [](CountIsSumOfLengths) /\ [][CountNeverDecreases]_vars

\* One survey holds responses of two departments and is counted 2.
C7_Witness ==
    \E s \in SurveyIds :
        /\ responseCounts[s] = 2
        /\ \E d1 \in DeptIds, d2 \in DeptIds :
              d1 # d2 /\ Len(responses[s][d1]) = 1 /\ Len(responses[s][d2]) = 1

\* ------------------------------------------------------------------ C8
OutsideWindow(s) == now < surveys[s].startTime \/ now > surveys[s].endTime

\* C8 as stated: for every created survey, a submit at a clock value outside
\* [startTime, endTime] reverts with "Survey not in progress".
C8_WindowRejection ==
    \A s \in SurveyIds :
        WasCreated(s) /\ OutsideWindow(s) =>
            \A d \in DeptIds, q \in QuestionIds, e \in HandleInputs, ip \in InputProofs :
                submitOutcome(s, d, q, e, ip, now) = OutOfWindow

\* C8 as amended: for every active survey, a submit at a clock value
\* outside [startTime, endTime] reverts with "Survey not in progress"; for a
\* survey that is not active it reverts with "Survey is not active",
\* whatever the clock.
C8_WindowRejectionWhenActive ==
    \A s \in SurveyIds :
        \A d \in DeptIds, q \in QuestionIds, e \in HandleInputs, ip \in InputProofs :
            /\ surveys[s].isActive /\ OutsideWindow(s) =>
                  submitOutcome(s, d, q, e, ip, now) = OutOfWindow
            /\ ~surveys[s].isActive =>
                  submitOutcome(s, d, q, e, ip, now) = SurveyInactive

\* A created, still active survey whose window has passed: the submit is
\* turned away by the window check.
C8_Witness ==
    \E s \in SurveyIds :
        /\ WasCreated(s) /\ surveys[s].isActive
        /\ now > surveys[s].endTime
        /\ submitOutcome(s, 1, 1, 1, 1, now) = OutOfWindow

\* ------------------------------------------------------------------ C9
ValidCiphertext(e, ip) == fromExternalOk(e, ip) /\ isInitialized(fromExternal(e, ip))

WindowOpen(s) ==
    /\ surveys[s].isActive
    /\ surveys[s].startTime <= now /\ now <= surveys[s].endTime

AcceptedIffWindowOpen ==
    \A s \in SurveyIds, d \in DeptIds, q \in QuestionIds, e \in HandleInputs, ip \in InputProofs :
        ValidCiphertext(e, ip) =>
            (submitOutcome(s, d, q, e, ip, now) = Ok <=> WindowOpen(s))

StoredOnlyWhenWindowOpen ==
    \A s \in SurveyIds, d \in DeptIds :
        Len(responses'[s][d]) > Len(responses[s][d]) =>
            /\ WindowOpen(s)
            /\ isInitialized(responses'[s][d][Len(responses'[s][d])].encryptedScore)
            /\ responses'[s][d][Len(responses'[s][d])].timestamp = now

\* C9: a submit whose ciphertext passes validation succeeds exactly when the
\* survey is active and startTime <= now <= endTime, both bounds included,
\* and a response is stored only by such a submit.
C9_WindowAcceptance == [](AcceptedIffWindowOpen) /\ [][StoredOnlyWhenWindowOpen]_vars

\* Responses were stored by submits at now = startTime and at now = endTime.
C9_Witness ==
    \E s \in SurveyIds :
        /\ \E d \in DeptIds : \E i \in StoredIndices(s, d) :
              ResponseAt(s, d, i).timestamp = surveys[s].startTime
        /\ \E d \in DeptIds : \E i \in StoredIndices(s, d) :
              ResponseAt(s, d, i).timestamp = surveys[s].endTime

\* ----------------------------------------------------------------- C10
\* C10: closeSurvey succeeds only when the survey is active and
\* now > endTime, reverts with "Survey still in progress" when the survey is
\* active and now <= endTime and with "Survey already closed" when it is not
\* active; it succeeds at most once per survey id.
C10_CloseGuard ==
    \A s \in SurveyIds :
        /\ closeSurveyOutcome(s, now) = Ok <=> (surveys[s].isActive /\ now > surveys[s].endTime)
        /\ surveys[s].isActive /\ now <= surveys[s].endTime =>
              closeSurveyOutcome(s, now) = SurveyStillInProgress
        /\ ~surveys[s].isActive => closeSurveyOutcome(s, now) = SurveyAlreadyClosed
        /\ closeCount[s] <= 1
\* ----------------------------------------------------------------- C11
\* C11: once a survey has been closed by closeSurvey it is not active in
\* any later state: no sequence of createSurvey, submit, verify and
\* closeSurvey calls takes it from Closed back to Open.
C11_CloseIrreversible ==
    \A s \in SurveyIds : closeCount[s] >= 1 => ~surveys[s].isActive

\* ----------------------------------------------------------------- C12
\* The contract storage and the event log.
Storage == <<surveys, responses, responseCounts, events>>

FailingCallsAreDisabled ==
    /\ \A s \in SurveyIds, name \in Names, st \in WindowTimes, en \in WindowTimes :
          createSurveyOutcome(s, name, st, en) # Ok => ~ENABLED createSurvey(s, name, st, en)
    /\ \A s \in SurveyIds, d \in DeptIds, q \in QuestionIds, e \in HandleInputs, ip \in InputProofs :
          submitOutcome(s, d, q, e, ip, now) # Ok =>
              ~ENABLED submitEncryptedResponse(s, d, q, e, ip)
    /\ \A s \in SurveyIds, d \in DeptIds :
          \A i \in 0..Len(responses[s][d]), q \in VerifyQuestionIds,
             b \in ClearValues, p \in Proofs :
              verifyOutcome(s, d, q, i, b, p) # Ok => ~ENABLED verifyResponse(s, d, q, i, b, p)
    /\ \A s \in SurveyIds :
          closeSurveyOutcome(s, now) # Ok => ~ENABLED closeSurvey(s)

StorageChangesOnlyBySuccess ==
    Storage' # Storage =>
        \/ \E s \in SurveyIds, name \in Names, st \in WindowTimes, en \in WindowTimes :
              createSurveyOutcome(s, name, st, en) = Ok /\ createSurvey(s, name, st, en)
        \/ \E s \in SurveyIds, d \in DeptIds, q \in QuestionIds, e \in HandleInputs, ip \in InputProofs :
              submitOutcome(s, d, q, e, ip, now) = Ok /\ submitEncryptedResponse(s, d, q, e, ip)
        \/ \E s \in SurveyIds, d \in DeptIds :
              \E i \in StoredIndices(s, d), q \in VerifyQuestionIds,
                 b \in ClearValues, p \in Proofs :
                  verifyOutcome(s, d, q, i, b, p) = Ok /\ verifyResponse(s, d, q, i, b, p)
        \/ \E s \in SurveyIds : closeSurveyOutcome(s, now) = Ok /\ closeSurvey(s)

\* C12: a call of createSurvey, submitEncryptedResponse, verifyResponse or
\* closeSurvey whose outcome is one of the named errors takes no step: the
\* surveys, the response sequences, the response counts and the event log
\* stay as they were; they change only in the step of a call whose outcome
\* is Ok.
C12_AllOrNothing == [](FailingCallsAreDisabled) /\ [][StorageChangesOnlyBySuccess]_vars

\* A state with storage and a log to lose, in which a call of each of the
\* four operations fails: the survey is closed and its response verified.
C12_Witness ==
    \E s \in SurveyIds, d \in DeptIds :
        /\ surveys[s].surveyName # "" /\ closeCount[s] = 1 /\ ~surveys[s].isActive
        /\ Len(responses[s][d]) = 1 /\ responses[s][d][1].isVerified
        /\ createSurveyOutcome(s, "Pulse", 1, 2) = DuplicateSurvey
        /\ submitOutcome(s, d, 1, 1, 1, now) = SurveyInactive
        /\ verifyOutcome(s, d, 1, 0, << >>, Forged) = AlreadyVerified
        /\ closeSurveyOutcome(s, now) = SurveyAlreadyClosed
\* ----------------------------------------------------------------- C13
EventKinds == {"SurveyCreated", "ResponseSubmitted", "ResponseVerified"}

NumEvents(kind) == Cardinality({ k \in DOMAIN events : events[k].kind = kind })

RECURSIVE SumOfCounts(_)
SumOfCounts(ss) ==
    IF ss = {} THEN 0
    ELSE LET s == CHOOSE x \in ss : TRUE IN responseCounts[s] + SumOfCounts(ss \ {s})

RECURSIVE SumOfVerified(_)
SumOfVerified(sds) ==
    IF sds = {} THEN 0
    ELSE LET sd == CHOOSE x \in sds : TRUE IN
         NumVerified(sd[1], sd[2]) + SumOfVerified(sds \ {sd})

\* The log against what the storage records of the successful calls.
EventsMatchStorage ==
    /\ \A k \in DOMAIN events : events[k].kind \in EventKinds
    /\ \A s \in SurveyIds : WasCreated(s) <=> surveys[s] # SurveyMetadataZero
    /\ NumEvents("ResponseSubmitted") = SumOfCounts(SurveyIds)
    /\ NumEvents("ResponseVerified") = SumOfVerified(SurveyIds \X DeptIds)

\* The step is a successful call of the kind and arguments of event ev.
CallOfEvent(ev) ==
    CASE ev.kind = "SurveyCreated" ->
            \E st \in WindowTimes, en \in WindowTimes :
                createSurvey(ev.surveyId, ev.surveyName, st, en)
      [] ev.kind = "ResponseSubmitted" ->
            \E e \in HandleInputs, ip \in InputProofs :
                submitEncryptedResponse(ev.surveyId, ev.departmentId, ev.questionId, e, ip)
      [] ev.kind = "ResponseVerified" ->
            \E i \in StoredIndices(ev.surveyId, ev.departmentId),
               b \in ClearValues, p \in Proofs :
                /\ AbiDecodable(b) /\ AbiDecodeUint32(b) = ev.score
                /\ verifyResponse(ev.surveyId, ev.departmentId, ev.questionId, i, b, p)
      [] OTHER -> FALSE

OneEventPerSuccessfulCall ==
    \* each successful call appends its event, and only that
    /\ \A s \in SurveyIds, name \in Names, st \in WindowTimes, en \in WindowTimes :
          createSurvey(s, name, st, en) =>
              events' = Append(events, [kind |-> "SurveyCreated", surveyId |-> s,
                                        surveyName |-> name])
    /\ \A s \in SurveyIds, d \in DeptIds, q \in QuestionIds, e \in HandleInputs, ip \in InputProofs :
          submitEncryptedResponse(s, d, q, e, ip) =>
              events' = Append(events, [kind |-> "ResponseSubmitted", surveyId |-> s,
                                        departmentId |-> d, questionId |-> q])
    /\ \A s \in SurveyIds, d \in DeptIds :
          \A i \in StoredIndices(s, d), q \in VerifyQuestionIds,
             b \in ClearValues, p \in Proofs :
              verifyResponse(s, d, q, i, b, p) =>
                  events' = Append(events, [kind |-> "ResponseVerified", surveyId |-> s,
                                            departmentId |-> d, questionId |-> q,
                                            score |-> AbiDecodeUint32(b)])
    \* the log is append-only and grows by the event of the call of the step
    /\ \/ events' = events
       \/ /\ Len(events') = Len(events) + 1
          /\ SubSeq(events', 1, Len(events)) = events
          /\ CallOfEvent(events'[Len(events')])
    \* a mutation made by createSurvey, submit or verify comes with its event
    /\ (\/ responses' # responses
        \/ responseCounts' # responseCounts
        \/ \E s \in SurveyIds : surveys'[s] # surveys[s] /\ surveys'[s].isActive)
          => Len(events') = Len(events) + 1

\* C13: every successful createSurvey, submitEncryptedResponse and
\* verifyResponse appends exactly one event of its kind in the step of its
\* state mutation; the log only grows, at its end, by the event of the call
\* that completed, so its order is the order of completion; and the events
\* of each kind are as many as the storage records successful calls of it.
C13_EventLog == [](EventsMatchStorage) /\ [][OneEventPerSuccessfulCall]_vars

\* The log of a creation, a submission and a verification, in the order in
\* which they completed, with a close (which logs nothing) after them.
C13_Witness ==
    /\ Len(events) = 3
    /\ events[1].kind = "SurveyCreated"
    /\ events[2].kind = "ResponseSubmitted"
    /\ events[3].kind = "ResponseVerified"
    /\ \E s \in SurveyIds : closeCount[s] = 1
\* ----------------------------------------------------------------- C14
\* An unverified response holds the initial score 0.
UnverifiedHasNoScore ==
    \A s \in SurveyIds, d \in DeptIds : \A i \in StoredIndices(s, d) :
        ~ResponseAt(s, d, i).isVerified => ResponseAt(s, d, i).decryptedScore = Uint32Zero

\* A verified response holds the score its ResponseVerified event carries.
VerifiedScoreWasDecoded ==
    \A s \in SurveyIds, d \in DeptIds : \A i \in StoredIndices(s, d) :
        ResponseAt(s, d, i).isVerified =>
            \E k \in DOMAIN events :
                /\ events[k].kind = "ResponseVerified"
                /\ events[k].surveyId = s /\ events[k].departmentId = d
                /\ events[k].score = ResponseAt(s, d, i).decryptedScore

ScoreAndFlagSetTogether ==
    \A s \in SurveyIds, d \in DeptIds : \A i \in StoredIndices(s, d) :
        \* the flag and the score are written by the same step, a verify
        /\ (ResponseAt(s, d, i).isVerified # responses'[s][d][i + 1].isVerified
            \/ ResponseAt(s, d, i).decryptedScore # responses'[s][d][i + 1].decryptedScore)
              => \E q \in VerifyQuestionIds, b \in ClearValues, p \in Proofs :
                    /\ verifyResponse(s, d, q, i, b, p)
                    /\ ~ResponseAt(s, d, i).isVerified
                    /\ responses'[s][d][i + 1].isVerified
                    /\ responses'[s][d][i + 1].decryptedScore = AbiDecodeUint32(b)
        \* once set, the score stays
        /\ ResponseAt(s, d, i).isVerified =>
              responses'[s][d][i + 1].decryptedScore = ResponseAt(s, d, i).decryptedScore

\* C14: in every reachable state an unverified response holds the initial
\* score 0 and a verified response the score decoded by its successful
\* verifyResponse; isVerified and decryptedScore are written in one step, by
\* that call, and the score of a verified response never changes.
C14_NoTornClearValue ==
    [](UnverifiedHasNoScore /\ VerifiedScoreWasDecoded) /\ [][ScoreAndFlagSetTogether]_vars

\* One sequence holds a verified response with a non-zero score next to an
\* unverified one, still at score 0.
C14_Witness ==
    \E s \in SurveyIds, d \in DeptIds :
        /\ Len(responses[s][d]) = 2
        /\ \E i, j \in StoredIndices(s, d) :
              /\ ResponseAt(s, d, i).isVerified
              /\ ResponseAt(s, d, i).decryptedScore = Uint32(Limb, Limb)
              /\ ~ResponseAt(s, d, j).isVerified
              /\ ResponseAt(s, d, j).decryptedScore = Uint32Zero
\* ----------------------------------------------------------------- C15
\* The fields of a response that submitEncryptedResponse sets for good.
SubmittedFields(r) ==
    [encryptedScore |-> r.encryptedScore, departmentId |-> r.departmentId,
     questionId |-> r.questionId, timestamp |-> r.timestamp]

StoredResponsesStay ==
    \A s \in SurveyIds, d \in DeptIds :
        /\ Len(responses'[s][d]) >= Len(responses[s][d])
        /\ \A i \in StoredIndices(s, d) :
              SubmittedFields(responses'[s][d][i + 1]) = SubmittedFields(ResponseAt(s, d, i))

\* Every stored response carries the department id of its sequence.
StoredUnderOwnDepartment ==
    \A s \in SurveyIds, d \in DeptIds : \A i \in StoredIndices(s, d) :
        ResponseAt(s, d, i).departmentId = d

\* C15: no step shortens a response sequence, and every response stored at
\* index i of (surveyId, departmentId) is found at index i after the step
\* with the same encryptedScore, departmentId, questionId and timestamp.
C15_AppendOnlyLedger == [](StoredUnderOwnDepartment) /\ [][StoredResponsesStay]_vars

\* A response submitted while its survey was open has since been verified
\* and has outlived the close of the survey.
C15_Witness ==
    \E s \in SurveyIds, d \in DeptIds :
        /\ Len(responses[s][d]) >= 1
        /\ responses[s][d][1].isVerified
        /\ responses[s][d][1].timestamp < now
        /\ closeCount[s] = 1 /\ ~surveys[s].isActive
\* ----------------------------------------------------------------- C16
CreatedSurveyChangesOnlyByClose ==
    \A s \in SurveyIds :
        WasCreated(s) =>
            /\ surveys'[s].surveyName = surveys[s].surveyName
            /\ surveys'[s].startTime = surveys[s].startTime
            /\ surveys'[s].endTime = surveys[s].endTime
            /\ surveys'[s].isActive # surveys[s].isActive => closeSurvey(s)

\* C16: once createSurvey has succeeded for an id, no step changes the
\* survey's surveyName, startTime or endTime, and a step that changes its
\* isActive is a closeSurvey of it.
C16_SurveyImmutable == [][CreatedSurveyChangesOnlyByClose]_vars

\* ----------------------------------------------------------------- C17
\* C17: every survey for which createSurvey has succeeded is stored with a
\* non-empty surveyName.
C17_NonEmptyName ==
    \A s \in SurveyIds : WasCreated(s) => surveys[s].surveyName # ""
\* ----------------------------------------------------------------- C18
StoredRangesAreValid ==
    \A s \in SurveyIds : WasCreated(s) => surveys[s].endTime > surveys[s].startTime

\* C18 as stated: createSurvey reverts with "Invalid time range" whenever
\* endTime <= startTime, so every created survey has endTime > startTime.
C18_TimeRange ==
    /\ \A s \in SurveyIds, name \in Names, st \in WindowTimes, en \in WindowTimes :
          en <= st => createSurveyOutcome(s, name, st, en) = InvalidTimeRange
    /\ StoredRangesAreValid

\* C18 as amended: with endTime <= startTime, createSurvey reverts with
\* "Invalid time range" on an id whose stored name is empty and with "Survey
\* already exists" on an id whose stored name is not; it never succeeds, so
\* every created survey has endTime > startTime.
C18_TimeRangeAfterDuplicateCheck ==
    /\ \A s \in SurveyIds, name \in Names, st \in WindowTimes, en \in WindowTimes :
          en <= st =>
              createSurveyOutcome(s, name, st, en) =
                  IF surveys[s].surveyName = "" THEN InvalidTimeRange ELSE DuplicateSurvey
    /\ StoredRangesAreValid

\* Two created surveys: on the one stored with an empty name a call with
\* endTime = startTime is turned away by the time-range require, on the
\* other by the duplicate require.
C18_Witness ==
    \E s1 \in SurveyIds, s2 \in SurveyIds :
        /\ WasCreated(s1) /\ WasCreated(s2)
        /\ surveys[s1].endTime > surveys[s1].startTime
        /\ createSurveyOutcome(s1, "Pulse", 2, 2) = InvalidTimeRange
        /\ createSurveyOutcome(s2, "Pulse", 2, 2) = DuplicateSurvey
\* ----------------------------------------------------------------- C19
\* The argument values of the scenario: survey 1 with the window [100, 200],
\* the clock values 150 and 250, department 1, question 7, clear value 8.
ScenarioWindowTimes == {100, 200}
ScenarioTimes == {100, 150, 200, 250}
ScenarioQuestionIds == {7}

ScenarioTick == \E t \in ScenarioTimes : t > now /\ now' = t /\ UNCHANGED <<surveys, responses, responseCounts, events, closeCount>>

ScenarioCreateStep ==
    \E surveyName \in Names, startTime \in ScenarioWindowTimes, endTime \in ScenarioWindowTimes :
        createSurvey(1, surveyName, startTime, endTime)

ScenarioSubmitStep ==
    \E departmentId \in DeptIds, questionId \in ScenarioQuestionIds,
       encryptedScore \in HandleInputs, inputProof \in InputProofs :
        submitEncryptedResponse(1, departmentId, questionId, encryptedScore, inputProof)

ScenarioVerifyStep ==
    \E departmentId \in DeptIds :
      \E responseIndex \in 0..Len(responses[1][departmentId]),
         questionId \in {0} \cup ScenarioQuestionIds,
         abiEncodedClearValue \in ClearValues, decryptionProof \in Proofs :
        verifyResponse(1, departmentId, questionId, responseIndex,
                       abiEncodedClearValue, decryptionProof)

NextScenario ==
    \/ Len(events) < MaxEvents /\ NumCreated < MaxCreates /\ ScenarioCreateStep
    \/ Len(events) < MaxEvents /\ NumStored < MaxResponses /\ ScenarioSubmitStep
    \/ Len(events) < MaxEvents /\ ScenarioVerifyStep
    \/ closeSurvey(1)
    \/ ScenarioTick

\* Survey 1 under the scenario's argument values.
SpecScenario == Init /\ [][NextScenario]_vars

\* The clear value 8, ABI-encoded, and the proof that signs it for handle h.
ClearEight == << Word(0, 0, 8) >>
ProofOfEight(h) == [cts |-> <<h>>, clear |-> ClearEight]

\* Survey 1 holds the window [100, 200].
ScenarioWindow == surveys[1].startTime = 100 /\ surveys[1].endTime = 200

ScenarioOutcomes ==
    \* createSurvey(S1, window [100, 200]) succeeds
    /\ surveys[1].surveyName = "" =>
          \A name \in Names : createSurveyOutcome(1, name, 100, 200) = Ok
    \* the submit at now = 150 succeeds
    /\ ScenarioWindow /\ surveys[1].isActive /\ now = 150 =>
          \A h \in Handles : submitOutcome(1, 1, 7, h, h, now) = Ok
    \* at now = 250 the submit fails, leaving the count, and the close succeeds
    /\ ScenarioWindow /\ surveys[1].isActive /\ now = 250 =>
          /\ \A h \in Handles :
                /\ submitOutcome(1, 1, 7, h, h, now) = OutOfWindow
                /\ ~ENABLED submitEncryptedResponse(1, 1, 7, h, h)
          /\ closeSurveyOutcome(1, now) = Ok
    \* the verify of index 0 succeeds on the closed survey, once
    /\ ScenarioWindow /\ ~surveys[1].isActive /\ Len(responses[1][1]) >= 1 =>
          LET h == responses[1][1][1].encryptedScore IN
          verifyOutcome(1, 1, 7, 0, ClearEight, ProofOfEight(h)) =
              IF responses[1][1][1].isVerified THEN AlreadyVerified ELSE Ok

ScenarioEffects ==
    \* the first submit is stored at index 0 and counted
    /\ \A h \in Handles :
          submitEncryptedResponse(1, 1, 7, h, h) /\ responseCounts[1] = 0 =>
              /\ Len(responses[1][1]) = 0
              /\ getEncryptedResponse(1, 1, 7, 0)' = Returned(h)
              /\ getResponseCount(1)' = Returned(1)
    /\ closeSurvey(1) => ~surveys'[1].isActive
    \* the verified value reads back as 8, and the verify cannot be repeated
    /\ \A h \in Handles :
          verifyResponse(1, 1, 7, 0, ClearEight, ProofOfEight(h)) =>
              /\ getDecryptedResponse(1, 1, 7, 0)' = Returned(Uint32(0, 8))
              /\ verifyOutcome(1, 1, 7, 0, ClearEight, ProofOfEight(h))' = AlreadyVerified

\* C19: survey 1 is created with the window [100, 200]; the submit at
\* now = 150 for (department 1, question 7) succeeds, is stored at index 0
\* and makes the count 1; at now = 250 a submit reverts with "Survey not in
\* progress" and takes no step, and closeSurvey succeeds; on the closed
\* survey the verify of index 0 with clear value 8 and its proof succeeds,
\* getDecryptedResponse then returns 8 and the same verify reverts with
\* "Response already verified".
C19_Scenario == [](ScenarioOutcomes) /\ [][ScenarioEffects]_vars

\* The state at the end of the scenario.
C19_Witness ==
    /\ ScenarioWindow /\ ~surveys[1].isActive /\ closeCount[1] = 1
    /\ now = 250
    /\ getResponseCount(1) = Returned(1)
    /\ Len(responses[1][1]) = 1
    /\ responses[1][1][1].timestamp = 150
    /\ responses[1][1][1].questionId = 7
    /\ getDecryptedResponse(1, 1, 7, 0) = Returned(Uint32(0, 8))
    /\ verifyOutcome(1, 1, 7, 0, ClearEight,
                     ProofOfEight(responses[1][1][1].encryptedScore)) = AlreadyVerified
\* ----------------------------------------------------------------- C20
\* The failure conditions of a verify call, in the claimed order.
VerifyFirstFailure(s, d, i, b, p) ==
    IF i >= Len(responses[s][d]) THEN IndexOutOfRange
    ELSE IF ResponseAt(s, d, i).isVerified THEN AlreadyVerified
    ELSE IF ~checkSignatures(<< ResponseAt(s, d, i).encryptedScore >>, b, p)
    THEN InvalidDecryptionProof
    ELSE IF ~AbiDecodable(b) THEN MalformedClearValue
    ELSE Ok

\* C20: verifyResponse reports the first failure condition that applies, in
\* the order: index out of range, response already verified, proof
\* rejected by checkSignatures, clear value not decodable; so an
\* out-of-range index with an invalid proof yields "Invalid response index"
\* and a verified response with an invalid proof "Response already
\* verified".
C20_VerifyErrorOrder ==
    \A s \in SurveyIds, d \in DeptIds :
        \A i \in 0..Len(responses[s][d]), q \in VerifyQuestionIds,
           b \in ClearValues, p \in Proofs :
            /\ verifyOutcome(s, d, q, i, b, p) = VerifyFirstFailure(s, d, i, b, p)
            /\ i >= Len(responses[s][d]) /\ p = Forged =>
                  verifyOutcome(s, d, q, i, b, p) = IndexOutOfRange
            /\ i < Len(responses[s][d]) /\ ResponseAt(s, d, i).isVerified /\ p = Forged =>
                  verifyOutcome(s, d, q, i, b, p) = AlreadyVerified

\* One sequence holds a verified and an unverified response, so that calls
\* exist in which two or more failure conditions apply at once, and for each
\* of the four errors a call that yields it.
C20_Witness ==
    \E s \in SurveyIds, d \in DeptIds :
        /\ Len(responses[s][d]) = 2
        /\ responses[s][d][1].isVerified /\ ~responses[s][d][2].isVerified
        /\ LET h == responses[s][d][2].encryptedScore
               malformed == << Word(1, 0, 8) >>
           IN
           /\ verifyOutcome(s, d, 1, 2, << >>, Forged) = IndexOutOfRange
           /\ verifyOutcome(s, d, 1, 0, << >>, Forged) = AlreadyVerified
           /\ verifyOutcome(s, d, 1, 1, << >>, Forged) = InvalidDecryptionProof
           /\ verifyOutcome(s, d, 1, 1, malformed, [cts |-> <<h>>, clear |-> malformed])
                 = MalformedClearValue
\* ----------------------------------------------------------------- C21
\* The gates of a submit call, in the claimed order; the ciphertext gate
\* fails by the revert of FHE.fromExternal or by the require on
\* FHE.isInitialized.
SubmitFirstFailure(s, e, ip) ==
    IF ~surveys[s].isActive THEN {SurveyInactive}
    ELSE IF OutsideWindow(s) THEN {OutOfWindow}
    ELSE IF ~ValidCiphertext(e, ip) THEN {InvalidInputProof, InvalidEncryptedInput}
    ELSE {Ok}

\* C21: submitEncryptedResponse reports the first gate that fails, in the
\* order: survey not active, clock outside [startTime, endTime], ciphertext
\* invalid; so on a closed or never-created survey it reverts with "Survey
\* is not active" whatever the clock and the ciphertext are.
C21_SubmitGateOrder ==
    \A s \in SurveyIds, d \in DeptIds, q \in QuestionIds, e \in HandleInputs, ip \in InputProofs :
        /\ submitOutcome(s, d, q, e, ip, now) \in SubmitFirstFailure(s, e, ip)
        /\ (~WasCreated(s) \/ closeCount[s] >= 1) /\ ~surveys[s].isActive =>
              \A t \in Times : submitOutcome(s, d, q, e, ip, t) = SurveyInactive

\* One survey is closed and the other is active past its window: a submit
\* with an invalid ciphertext fails all three gates on the first and the
\* last two on the second.
C21_Witness ==
    \E s1 \in SurveyIds, s2 \in SurveyIds :
        /\ closeCount[s1] = 1 /\ ~surveys[s1].isActive /\ OutsideWindow(s1)
        /\ submitOutcome(s1, 1, 1, 0, 1, now) = SurveyInactive
        /\ surveys[s2].isActive /\ OutsideWindow(s2)
        /\ submitOutcome(s2, 1, 1, 0, 1, now) = OutOfWindow
\* ----------------------------------------------------------------- C22
\* The bytes decode to an integer in 0..2^32-1: one full word at least,
\* with no bit set above bit 31.
DecodesToUint32(b) == Len(b) >= 1 /\ b[1].upper = 0
InUint32Range(v) == v.hi \in 0..Limb /\ v.lo \in 0..Limb

VerifiedScoresInRange ==
    \A s \in SurveyIds, d \in DeptIds : \A i \in StoredIndices(s, d) :
        /\ InUint32Range(ResponseAt(s, d, i).decryptedScore)
        /\ ResponseAt(s, d, i).isVerified =>
              \E w \in ClearWords :
                  /\ DecodesToUint32(<<w>>)
                  /\ ResponseAt(s, d, i).decryptedScore = Uint32(w.hi, w.lo)

NoTruncatedScore ==
    \A s \in SurveyIds, d \in DeptIds : \A i \in StoredIndices(s, d) :
        \A q \in VerifyQuestionIds, b \in ClearValues, p \in Proofs :
            verifyResponse(s, d, q, i, b, p) =>
                /\ DecodesToUint32(b)
                /\ responses'[s][d][i + 1].decryptedScore = Uint32(b[1].hi, b[1].lo)

\* C22 as stated: a verifyResponse on a stored, unverified response whose
\* clear value does not decode to an integer in 0..2^32-1 reverts in
\* abi.decode, so the score of every verified response is the whole decoded
\* integer, in 0..2^32-1.
C22_ClearValueRange ==
    [](/\ \A s \in SurveyIds, d \in DeptIds :
             \A i \in StoredIndices(s, d), q \in VerifyQuestionIds,
                b \in ClearValues, p \in Proofs :
                 ~ResponseAt(s, d, i).isVerified /\ ~DecodesToUint32(b) =>
                     verifyOutcome(s, d, q, i, b, p) = MalformedClearValue
       /\ VerifiedScoresInRange)
    /\ [][NoTruncatedScore]_vars

\* C22 as amended: a verifyResponse on a stored, unverified response whose
\* clear value does not decode to an integer in 0..2^32-1 never succeeds:
\* it reverts in abi.decode when checkSignatures accepts the proof, and in
\* checkSignatures when it does not; so the score of every verified
\* response is the whole decoded integer, in 0..2^32-1.
C22_ClearValueRangeAfterProof ==
    [](/\ \A s \in SurveyIds, d \in DeptIds :
             \A i \in StoredIndices(s, d), q \in VerifyQuestionIds,
                b \in ClearValues, p \in Proofs :
                 ~ResponseAt(s, d, i).isVerified /\ ~DecodesToUint32(b) =>
                     verifyOutcome(s, d, q, i, b, p) =
                         IF checkSignatures(<< ResponseAt(s, d, i).encryptedScore >>, b, p)
                         THEN MalformedClearValue ELSE InvalidDecryptionProof
       /\ VerifiedScoresInRange)
    /\ [][NoTruncatedScore]_vars

\* A response verified with the largest 32-bit score, and an unverified
\* one for which a signed clear value with a bit above bit 31 is turned
\* away by the decoder.
C22_Witness ==
    \E s \in SurveyIds, d \in DeptIds :
        /\ Len(responses[s][d]) = 2
        /\ \E i, j \in StoredIndices(s, d) :
              /\ ResponseAt(s, d, i).isVerified
              /\ ResponseAt(s, d, i).decryptedScore = Uint32(Limb, Limb)
              /\ ~ResponseAt(s, d, j).isVerified
              /\ LET b == << Word(1, 0, 8) >>
                     p == [cts |-> << ResponseAt(s, d, j).encryptedScore >>, clear |-> b]
                 IN verifyOutcome(s, d, 1, j, b, p) = MalformedClearValue
\* ----------------------------------------------------------------- C23
\* The clear value and proof are accepted for the response at (s, d, i).
ValidProofFor(s, d, i, b, p) ==
    checkSignatures(<< ResponseAt(s, d, i).encryptedScore >>, b, p) /\ AbiDecodable(b)

VerifyIgnoresLifecycle ==
    \A s \in SurveyIds, d \in DeptIds : \A i \in StoredIndices(s, d) :
        \A q \in VerifyQuestionIds, b \in ClearValues, p \in Proofs :
            ~ResponseAt(s, d, i).isVerified /\ ValidProofFor(s, d, i, b, p) =>
                /\ verifyOutcome(s, d, q, i, b, p) = Ok
                /\ ENABLED verifyResponse(s, d, q, i, b, p)

\* C23: for a stored unverified response and a clear value and proof that
\* checkSignatures and abi.decode accept, verifyResponse succeeds in every
\* reachable state: with the survey active or closed, and with the clock
\* before, inside or after the window the survey stores.
C23_VerifyNotGated == VerifyIgnoresLifecycle

\* An unverified response of a closed survey, with the clock past the
\* window: a verify of it would succeed.
C23_Witness ==
    \E s \in SurveyIds, d \in DeptIds :
        /\ closeCount[s] = 1 /\ ~surveys[s].isActive /\ now > surveys[s].endTime
        /\ Len(responses[s][d]) = 1 /\ ~responses[s][d][1].isVerified
        /\ verifyOutcome(s, d, 1, 0, << Word(0, 0, 8) >>,
                         [cts |-> << responses[s][d][1].encryptedScore >>,
                          clear |-> << Word(0, 0, 8) >>]) = Ok
\* ----------------------------------------------------------------- C24
VerifyFrame ==
    \A s \in SurveyIds, d \in DeptIds : \A i \in StoredIndices(s, d) :
        \A q \in VerifyQuestionIds, b \in ClearValues, p \in Proofs :
            verifyResponse(s, d, q, i, b, p) =>
                /\ surveys' = surveys
                /\ responseCounts' = responseCounts
                /\ closeCount' = closeCount /\ now' = now
                \* every other sequence, and every other index of this one
                /\ \A s2 \in SurveyIds, d2 \in DeptIds :
                      /\ Len(responses'[s2][d2]) = Len(responses[s2][d2])
                      /\ \A j \in StoredIndices(s2, d2) :
                            <<s2, d2, j>> # <<s, d, i>> =>
                                responses'[s2][d2][j + 1] = ResponseAt(s2, d2, j)
                \* the target: nothing but isVerified and decryptedScore
                /\ responses'[s][d][i + 1] =
                      [ResponseAt(s, d, i) EXCEPT !.isVerified = TRUE,
                                                  !.decryptedScore = AbiDecodeUint32(b)]
                \* one verification event
                /\ Len(events') = Len(events) + 1
                /\ SubSeq(events', 1, Len(events)) = events
                /\ events'[Len(events')].kind = "ResponseVerified"

\* C24: a successful verifyResponse(surveyId, departmentId, _, index, ...)
\* changes, of the response at that index, isVerified and decryptedScore
\* only, and appends one ResponseVerified event; every other response, the
\* other indices of the same sequence included, every survey and every
\* response count stay as they were.
C24_VerifyFrame == [][VerifyFrame]_vars

\* The second response of a sequence has been verified and the first is
\* as it was submitted.
C24_Witness ==
    \E s \in SurveyIds, d \in DeptIds :
        /\ Len(responses[s][d]) = 2
        /\ responses[s][d][2].isVerified
        /\ responses[s][d][2].decryptedScore = Uint32(0, 8)
        /\ ~responses[s][d][1].isVerified
        /\ responses[s][d][1].decryptedScore = Uint32Zero
        /\ events[Len(events)].kind = "ResponseVerified"
\* ----------------------------------------------------------------- C25
CloseFrame ==
    \A s \in SurveyIds :
        closeSurvey(s) =>
            /\ surveys[s].isActive /\ ~surveys'[s].isActive
            /\ surveys'[s].surveyName = surveys[s].surveyName
            /\ surveys'[s].startTime = surveys[s].startTime
            /\ surveys'[s].endTime = surveys[s].endTime
            /\ \A s2 \in SurveyIds \ {s} : surveys'[s2] = surveys[s2]
            /\ responses' = responses
            /\ responseCounts' = responseCounts
            /\ events' = events
            /\ now' = now

\* C25: a successful closeSurvey(id) changes isActive of survey id from true
\* to false and nothing else: the survey's name, startTime and endTime, the
\* other surveys, the response sequences, the response counts and the
\* event log stay as they were.
C25_CloseFrame == [][CloseFrame]_vars

\* A named survey with a stored response has been closed: its name, its
\* window, the response, the count and the log are still there.
C25_Witness ==
    \E s \in SurveyIds, d \in DeptIds :
        /\ closeCount[s] = 1 /\ ~surveys[s].isActive
        /\ surveys[s].surveyName = "Pulse"
        /\ surveys[s].startTime = 1 /\ surveys[s].endTime = 2
        /\ Len(responses[s][d]) = 1 /\ responseCounts[s] = 1
        /\ Len(events) = 3
\* ------------------------------------------------- windows of every length
\* Survey 1 with createSurvey arguments over every window of the clock
\* range, and a clock that passes the end of each of them.
WideWindowTimes == 1..MaxTime
WideTimes == 0..(MaxTime + 1)

WideTick == \E t \in WideTimes : t > now /\ now' = t /\ UNCHANGED <<surveys, responses, responseCounts, events, closeCount>>

WideCreateStep ==
    \E surveyName \in Names, startTime \in WideWindowTimes, endTime \in WideWindowTimes :
        createSurvey(1, surveyName, startTime, endTime)

NextWide ==
    \/ Len(events) < MaxEvents /\ NumCreated < MaxCreates /\ WideCreateStep
    \/ Len(events) < MaxEvents /\ NumStored < MaxResponses /\ SubmitStep({1})
    \/ Len(events) < MaxEvents /\ VerifyStep({1})
    \/ CloseStep({1})
    \/ WideTick

SpecWide == Init /\ [][NextWide]_vars
\* ----------------------------------------------------------------- C26
\* C26: every stored response's timestamp lies inside the window of its
\* survey as currently stored: startTime <= timestamp <= endTime.
C26_SubmittedInsideWindow ==
    \A s \in SurveyIds, d \in DeptIds : \A i \in StoredIndices(s, d) :
        /\ surveys[s].startTime <= ResponseAt(s, d, i).timestamp
        /\ ResponseAt(s, d, i).timestamp <= surveys[s].endTime
\* ----------------------------------------------------------------- C27
\* A created survey that is not active has its window behind it: the
\* window check alone rejects every submit that isActive rejects.
InactiveIsPastEnd ==
    \A s \in SurveyIds :
        WasCreated(s) /\ ~surveys[s].isActive =>
            /\ now > surveys[s].endTime
            /\ \A t \in WideTimes :
                  t >= now => ~(surveys[s].startTime <= t /\ t <= surveys[s].endTime)

CloseComesAfterEnd ==
    /\ now' >= now
    /\ \A s \in SurveyIds :
          /\ closeSurvey(s) => now > surveys[s].endTime
          /\ surveys[s].isActive /\ ~surveys'[s].isActive => now > surveys[s].endTime

\* C27: under a clock that never goes back, a created survey that is not
\* active has now > endTime in every reachable state, closeSurvey succeeding
\* only after endTime; so from the close on, no clock value that the window
\* [startTime, endTime] would accept can occur.
C27_CloseNeverShortensWindow == [](InactiveIsPastEnd) /\ [][CloseComesAfterEnd]_vars

\* A survey that took a response at the last instant of its window and
\* was closed after it.
C27_Witness ==
    \E s \in SurveyIds, d \in DeptIds :
        /\ closeCount[s] = 1 /\ ~surveys[s].isActive
        /\ \E i \in StoredIndices(s, d) : ResponseAt(s, d, i).timestamp = surveys[s].endTime
        /\ now = surveys[s].endTime + 1
\* ----------------------------------------------------------------- C28
\* The clock has exceeded the endTime of the created survey s.
WindowPassed(s) == WasCreated(s) /\ now > surveys[s].endTime

PassedWindowStaysPassed ==
    \A s \in SurveyIds :
        WindowPassed(s) =>
            /\ WindowPassed(s)'
            /\ \A d \in DeptIds, q \in QuestionIds, e \in HandleInputs, ip \in InputProofs :
                  ~submitEncryptedResponse(s, d, q, e, ip)
            /\ responseCounts'[s] = responseCounts[s]
            /\ \A d \in DeptIds : Len(responses'[s][d]) = Len(responses[s][d])

\* C28: under a clock that never goes back, once the clock has exceeded a
\* created survey's endTime it stays beyond it and no submit on that survey
\* succeeds in any later step: the survey's responseCounts entry and the
\* lengths of its sequences stay as they are.
C28_WindowClosurePermanent == [][PassedWindowStaysPassed]_vars
\* ----------------------------------------------------------------- C29
\* The response sequences after a successful verify of (s, d, i) with the
\* clear value b: no questionId enters it.
ResponsesAfterVerify(s, d, i, b) ==
    [responses EXCEPT ![s][d][i + 1] =
        [@ EXCEPT !.isVerified = TRUE, !.decryptedScore = AbiDecodeUint32(b)]]

SameOutcomeForEveryQuestionId ==
    LET q1 == CHOOSE q \in VerifyQuestionIds : TRUE IN
    \A s \in SurveyIds, d \in DeptIds :
        \A i \in 0..Len(responses[s][d]), b \in ClearValues, p \in Proofs :
            LET outcome == verifyOutcome(s, d, q1, i, b, p) IN
            \A q2 \in VerifyQuestionIds \ {q1} :
                /\ verifyOutcome(s, d, q2, i, b, p) = outcome
                /\ outcome = Ok =>
                      /\ ENABLED verifyResponse(s, d, q1, i, b, p)
                      /\ ENABLED verifyResponse(s, d, q2, i, b, p)

SameEffectForEveryQuestionId ==
    \A s \in SurveyIds, d \in DeptIds : \A i \in StoredIndices(s, d) :
        \A q \in VerifyQuestionIds, b \in ClearValues, p \in Proofs :
            verifyResponse(s, d, q, i, b, p) =>
                /\ surveys' = surveys
                /\ responseCounts' = responseCounts
                /\ responses' = ResponsesAfterVerify(s, d, i, b)
                /\ responses'[s][d][i + 1].questionId = ResponseAt(s, d, i).questionId
                /\ events'[Len(events')].questionId = q

\* C29: verifyResponse does not compare its questionId argument with the
\* stored response's questionId: calls that differ in it only have the same
\* outcome, a successful one leaves the same surveys, responses and counts
\* whatever the questionId, the stored questionId stays, and the
\* ResponseVerified event carries the argument.
C29_QuestionIdNotCompared ==
    [](SameOutcomeForEveryQuestionId) /\ [][SameEffectForEveryQuestionId]_vars

\* A response stored under question 1 was verified by a call that passed
\* question 0: the event says 0, the response says 1.
C29_Witness ==
    \E s \in SurveyIds, d \in DeptIds :
        /\ Len(responses[s][d]) = 1
        /\ responses[s][d][1].isVerified
        /\ responses[s][d][1].questionId = 1
        /\ events[Len(events)].kind = "ResponseVerified"
        /\ events[Len(events)].surveyId = s /\ events[Len(events)].departmentId = d
        /\ events[Len(events)].questionId = 0
\* ----------------------------------------------------------------- C30
\* SpecWide with a clock that keeps advancing and weak fairness on
\* closeSurvey.
SpecWideFair == SpecWide /\ WF_vars(WideTick) /\ WF_vars(CloseStep({1}))

\* The closeSurvey call on s would succeed.
CloseEnabled(s) == closeSurveyOutcome(s, now) = Ok

CloseStaysEnabled ==
    \A s \in SurveyIds : CloseEnabled(s) => closeSurvey(s) \/ CloseEnabled(s)'

CreatedIsEventuallyClosed ==
    \A s \in SurveyIds : WasCreated(s) ~> ~surveys[s].isActive

\* C30: once now > endTime of an active survey, closeSurvey on it stays
\* enabled until it fires, no other operation disabling it; so with a clock
\* that keeps advancing and weak fairness on closeSurvey, every created
\* survey is eventually closed.
C30_EventuallyClosed == [][CloseStaysEnabled]_vars /\ CreatedIsEventuallyClosed
====
